---- MODULE Spec2Model ----
(***************************************************************************)
(* The session-authenticated favorites / event data-access layer of the   *)
(* Tokyo event finder: MemStorage (src/server/storage.ts), the HTTP       *)
(* routes in front of it (src/server/perplexityApi.ts, registerRoutes)    *)
(* and the EventCard of the browser client that toggles a favorite.       *)
(*                                                                         *)
(* Node runs a callback, and the promise jobs it leaves, to the end before *)
(* it takes the next callback, so one action is a stretch of a handler    *)
(* between two suspensions that hand control to the event loop.  A        *)
(* handler suspends so where it awaits work done in later turns of the    *)
(* loop (bcrypt.hash, bcrypt.compare, the external event source).  An     *)
(* `await` on a MemStorage method does not: the method's promise is       *)
(* resolved when it returns, and the handler goes on as a promise job of  *)
(* the same turn.  A request under way to the server and the requests     *)
(* suspended in it interleave stretch by stretch.  A handler that only    *)
(* reads (GET /api/auth/me, GET /api/favorites, GET                       *)
(* /api/favorites/check/:eventId, GET /api/districts) is a function of    *)
(* the state at its storage call: its response is an operator, defined in *)
(* every state.                                                            *)
(*                                                                         *)
(* A JavaScript `T | undefined` is a sequence of length 0 or 1.  Strings  *)
(* that the code builds or compares piecewise (passwords, hashes, event   *)
(* identifiers, map keys) are sequences of characters or, where the code  *)
(* never looks inside, of whole tokens.                                    *)
(***************************************************************************)
EXTENDS Integers, Sequences, FiniteSets, TLC

(***************************************************************************)
(* Bounds of the model.                                                    *)
(***************************************************************************)
MaxUsers == 2       \* registrations taken in by the authentication routes
MaxClients == 1     \* registrations taken in among the favorites routes
MaxFavorites == 2   \* addFavorite calls taken in
MaxDistricts == 3   \* addDistrict calls taken in after the default districts

ReqOrder == <<"r1", "r2">>
Reqs == {ReqOrder[i] : i \in DOMAIN ReqOrder}
Sessions == {"s1", "s2"}
\* The username / password pairs clients submit.
Credentials ==
    {[username |-> "alice", password |-> <<"secret1">>],
     [username |-> "alice", password |-> <<"wrongpass">>],
     [username |-> "bob", password |-> <<"secret1">>]}
\* The bodies sent to POST /api/auth/register: a field is present or missing.
RegisterBodies ==
         {[username |-> <<c.username>>, password |-> <<c.password>>] : c \in Credentials}
    \cup {[username |-> <<>>, password |-> <<<<"secret1">>>>],
          [username |-> <<"alice">>, password |-> <<>>]}
\* The salts bcrypt draws.  No operation compares two hashes, so one salt is
\* enough to tell a hash from any plaintext.
Salts == {"saltA"}
\* Event identifiers, character by character.
EventIds == {<<"7">>, <<"2", "-", "7">>}
\* The content of an event record apart from its id.
EventData == {"v1"}
\* The content of a record in a list the event source returns: two versions,
\* so that a later write of an id can differ from an earlier one.
ListedData == {"v1", "v2"}
\* The identifiers the external source has an event for.  For any other it
\* is asked to describe a popular event under the requested identifier.
SourceEventIds == {<<"7">>}
\* Query strings of GET /api/events, character by character: two calendar
\* dates, a month that does not exist, a date without leading zeros and
\* the empty string.
Jan01 == <<"2", "0", "2", "4", "-", "0", "1", "-", "0", "1">>
Jan02 == <<"2", "0", "2", "4", "-", "0", "1", "-", "0", "2">>
Month13 == <<"2", "0", "2", "4", "-", "1", "3", "-", "0", "1">>
NoZeros == <<"2", "0", "2", "4", "-", "1", "-", "1">>
DateStrings == {Jan01, Jan02, Month13, NoZeros, <<>>}
\* req.query of GET /api/events: each parameter is a string or undefined.
\* The district only adds a lookup to a query that passes the checks.
Queries ==
         [dateFrom : {<<>>} \cup {<<d>> : d \in DateStrings},
          dateTo : {<<>>} \cup {<<d>> : d \in DateStrings},
          district : {<<>>}]
    \cup {[dateFrom |-> <<Jan01>>, dateTo |-> <<Jan02>>, district |-> <<<<"central">>>>]}
\* The records given to addDistrict after the defaults: ranks below, among
\* and above the defaults', under a new value or one a default has.
NewDistricts == [value : {<<"odaiba">>, <<"central">>}, displayOrder : {0, 4, 9}]
\* The instants new Date() yields; no code reads createdAt back.
Times == {"t1"}

VARIABLES
    users,              \* MemStorage.users: Map<number, User>
    currentUserId,      \* MemStorage.currentUserId
    favorites,          \* MemStorage.favorites: Map<string, Favorite>
    currentFavoriteId,  \* MemStorage.currentFavoriteId
    events,             \* MemStorage.events: Map<string, Event>
    districts,          \* MemStorage.districts: Map<number, District>
    currentDistrictId,  \* MemStorage.currentDistrictId
    sessionUser,        \* session store: session.passport.user of each client session
    reqs,               \* the HTTP requests suspended at an `await`, one per slot
    resp,               \* the HTTP response the last step sent, if it sent one
    card                \* the EventCard the browser of session s1 shows, if any

districtVars == <<districts, currentDistrictId>>
storeVars == <<users, currentUserId, favorites, currentFavoriteId, events, districtVars>>
vars == <<users, currentUserId, favorites, currentFavoriteId, events, districtVars,
          sessionUser, reqs, resp, card>>

(***************************************************************************)
(* JavaScript Map: insertion-ordered; set() on a present key replaces the *)
(* value in place, on an absent key appends; delete() removes the entry.  *)
(***************************************************************************)
MapHas(m, k) == \E i \in DOMAIN m : m[i].k = k

MapGet(m, k) ==
    IF MapHas(m, k) THEN <<m[CHOOSE i \in DOMAIN m : m[i].k = k].v>> ELSE <<>>

MapSet(m, k, v) ==
    IF MapHas(m, k)
    THEN [i \in DOMAIN m |-> IF m[i].k = k THEN [k |-> k, v |-> v] ELSE m[i]]
    ELSE Append(m, [k |-> k, v |-> v])

\* A variant that drops the oldest entry when the key is absent; C11 fails
\* with it.
MapDeleteOrOldest(m, k) ==
    LET keep(e) == e.k # k IN
    IF MapHas(m, k) \/ m = <<>> THEN SelectSeq(m, keep) ELSE Tail(m)

MapDelete(m, k) ==
    LET keep(e) == e.k # k IN SelectSeq(m, keep)

MapValues(m) == [i \in DOMAIN m |-> m[i].v]

\* Array.prototype.find, given the elements satisfying the test in array
\* order: the first of them, or undefined.
Find(hits) == IF hits = <<>> THEN <<>> ELSE <<hits[1]>>

(***************************************************************************)
(* Template-literal formatting of a number: its decimal digits.           *)
(***************************************************************************)
DigitChar(d) == <<"0", "1", "2", "3", "4", "5", "6", "7", "8", "9">>[d + 1]

RECURSIVE Digits(_)
Digits(n) == IF n < 10 THEN <<DigitChar(n)>> ELSE Digits(n \div 10) \o <<DigitChar(n % 10)>>

\* A variant keying each record by its user alone; C29 fails with it.
FavoriteKeyOfUser(userId, eventId) == Digits(userId)

\* A variant keying each record by its event alone; C24 fails with it.
FavoriteKeyOfEvent(userId, eventId) == eventId

\* A variant keying each record by its own surrogate id; C2 rests on the
\* composite key and fails with this one.
FavoriteKeyBySurrogateId(userId, eventId) == Digits(currentFavoriteId)

\* `${userId}-${eventId}`
FavoriteKey(userId, eventId) == Digits(userId) \o <<"-">> \o eventId

(***************************************************************************)
(* bcryptjs, as symbolic terms: hash(password, 10) draws a salt and       *)
(* yields "$2a$10$" ++ salt ++ digest(password, salt); compare re-hashes  *)
(* the candidate with the salt embedded in the stored hash.               *)
(***************************************************************************)
BcryptDigest(password, salt) == <<"digest(">> \o password \o <<",", salt, ")">>

BcryptHash(password, salt) == <<"$2a$10$", salt>> \o BcryptDigest(password, salt)

BcryptIsHash(h) == Len(h) >= 2 /\ h[1] = "$2a$10$"

\* A variant accepting every candidate; C5 fails with it.
BcryptCompareAny(password, h) == TRUE

BcryptCompare(password, h) ==
    /\ BcryptIsHash(h)
    /\ h = BcryptHash(password, h[2])

(***************************************************************************)
(* MemStorage: user operations.                                            *)
(***************************************************************************)
getUser(id) == MapGet(users, id)

\* A variant that never finds a user; C7 fails with it.
getUserByUsernameNone(username) == <<>>

getUserByUsername(username) ==
    LET test(user) == user.username = username IN Find(SelectSeq(MapValues(users), test))

\* The record createUser builds and returns.
createUserResult(userData) ==
    [id |-> currentUserId, username |-> userData.username, password |-> userData.password]

\* A variant that leaves the counter where it was; C22 fails with it.
createUserSameId(userData) ==
    /\ currentUserId' = currentUserId
    /\ users' = MapSet(users, currentUserId, createUserResult(userData))

createUser(userData) ==
    /\ currentUserId' = currentUserId + 1
    /\ users' = MapSet(users, currentUserId, createUserResult(userData))

(***************************************************************************)
(* MemStorage: favorites operations.                                       *)
(***************************************************************************)
\* A variant that joins the favorites of every user; C13 fails with it.
getUserFavoritesOfAll(userId) ==
    LET looked == [i \in DOMAIN favorites |-> MapGet(events, favorites[i].v.eventId)]
        truthy(e) == e # <<>>
        kept == SelectSeq(looked, truthy)
    IN [i \in DOMAIN kept |-> kept[i][1]]

getUserFavorites(userId) ==
    LET mine(fav) == fav.userId = userId
        userFavorites == SelectSeq(MapValues(favorites), mine)
        looked == [i \in DOMAIN userFavorites |-> MapGet(events, userFavorites[i].eventId)]
        truthy(e) == e # <<>>
        kept == SelectSeq(looked, truthy)
    IN [i \in DOMAIN kept |-> kept[i][1]]

\* A variant that finds no record; C23 fails with it.
getFavoriteNone(userId, eventId) == <<>>

\* A variant matching on the user alone; C4 fails with it.
getFavoriteOfUser(userId, eventId) ==
    LET test(fav) == fav.userId = userId IN Find(SelectSeq(MapValues(favorites), test))

getFavorite(userId, eventId) ==
    LET test(fav) == fav.userId = userId /\ fav.eventId = eventId
    IN Find(SelectSeq(MapValues(favorites), test))

addFavoriteResult(favoriteData, now) ==
    [userId |-> favoriteData.userId, eventId |-> favoriteData.eventId,
     id |-> currentFavoriteId, createdAt |-> now]

addFavorite(favoriteData, now) ==
    LET favorite == addFavoriteResult(favoriteData, now) IN
    /\ currentFavoriteId' = currentFavoriteId + 1
    /\ favorites' = MapSet(favorites, FavoriteKey(favorite.userId, favorite.eventId), favorite)

\* A variant deleting under the key with its parts swapped; C10 fails with it.
removeFavoriteSwappedKey(userId, eventId) ==
    favorites' = MapDelete(favorites, eventId \o <<"-">> \o Digits(userId))

removeFavorite(userId, eventId) ==
    favorites' = MapDelete(favorites, FavoriteKey(userId, eventId))

(***************************************************************************)
(* MemStorage: the event cache.                                            *)
(***************************************************************************)
\* A variant of the cache write that keeps the record an id already has;
\* C19 fails with it.
eventsSetKeepFirst(m, event) ==
    IF MapHas(m, event.id) THEN m ELSE MapSet(m, event.id, event)

\* this.events.set(event.id, event)
eventsSet(m, event) == MapSet(m, event.id, event)

cacheEvent(event) == events' = eventsSet(events, event)

\* events.forEach(event => this.cacheEvent(event)) over an array parsed from
\* JSON, whose elements are records or null (here <<>>).  Reading .id of null
\* throws and ends the loop; what was cached before stays cached.
RECURSIVE cacheEventsFrom(_, _)
cacheEventsFrom(m, list) ==
    IF list = <<>> \/ list[1] = <<>>
    THEN m
    ELSE cacheEventsFrom(eventsSet(m, list[1][1]), Tail(list))

cacheEventsThrows(list) == \E i \in DOMAIN list : list[i] = <<>>

cacheEvents(list) == events' = cacheEventsFrom(events, list)

(***************************************************************************)
(* MemStorage: district operations.                                        *)
(***************************************************************************)
\* The default districts, by value (one token) and displayOrder.
districtsData ==
    <<[value |-> <<"central">>, displayOrder |-> 1],
      [value |-> <<"shinjuku-shibuya">>, displayOrder |-> 2],
      [value |-> <<"ikebukuro-ueno">>, displayOrder |-> 3],
      [value |-> <<"south">>, displayOrder |-> 4],
      [value |-> <<"north-east">>, displayOrder |-> 5],
      [value |-> <<"tama-west">>, displayOrder |-> 6],
      [value |-> <<"tama-south">>, displayOrder |-> 7],
      [value |-> <<"tama-north">>, displayOrder |-> 8]>>

\* A variant giving every district the rank 1; C21 fails with it.
addDistrictResultUnranked(districtData, id) ==
    [value |-> districtData.value, displayOrder |-> 1, id |-> id]

\* { ...districtData, id }
addDistrictResult(districtData, id) ==
    [value |-> districtData.value, displayOrder |-> districtData.displayOrder, id |-> id]

addDistrict(districtData) ==
    /\ currentDistrictId' = currentDistrictId + 1
    /\ districts' = MapSet(districts, currentDistrictId,
                           addDistrictResult(districtData, currentDistrictId))

\* The districts map after the first n default districts were added, ids from 1.
RECURSIVE initializeDistricts(_)
initializeDistricts(n) ==
    IF n = 0
    THEN <<>>
    ELSE MapSet(initializeDistricts(n - 1), n, addDistrictResult(districtsData[n], n))

\* Array.prototype.sort with (a, b) => a.displayOrder - b.displayOrder: a
\* stable sort, here by insertion.
InsertByDisplayOrder(sorted, d) ==
    LET before(x) == x.displayOrder <= d.displayOrder
        k == Len(SelectSeq(sorted, before))
    IN SubSeq(sorted, 1, k) \o <<d>> \o SubSeq(sorted, k + 1, Len(sorted))

RECURSIVE SortByDisplayOrder(_)
SortByDisplayOrder(arr) ==
    IF arr = <<>>
    THEN <<>>
    ELSE InsertByDisplayOrder(SortByDisplayOrder(SubSeq(arr, 1, Len(arr) - 1)), arr[Len(arr)])

\* A variant returning the records in map order; C20 fails with it.
getAllDistrictsUnsorted == MapValues(districts)

getAllDistricts == SortByDisplayOrder(MapValues(districts))

getDistrictByValue(value) ==
    LET test(district) == district.value = value
    IN Find(SelectSeq(MapValues(districts), test))

(***************************************************************************)
(* HTTP requests.  A slot holds a request that is under way to the server *)
(* or suspended in it at an `await`: its                                   *)
(* route and inputs, req.user as passport resolved it on arrival, the     *)
(* value the handler holds across the `await` (local) and the storage     *)
(* methods its handler has called so far (calls) and the number of calls  *)
(* it has made to the external event source (fetches).  A step that       *)
(* answers leaves the response in resp; any other step clears resp.       *)
(***************************************************************************)
IdleReq ==
    [route |-> "none", pc |-> "idle", sess |-> "none", user |-> <<>>,
     username |-> <<>>, password |-> <<>>, eventId |-> <<>>, query |-> <<>>,
     local |-> <<>>, calls |-> {}, fetches |-> 0]

NoResp ==
    [route |-> "none", sess |-> "none", user |-> <<>>, username |-> <<>>,
     password |-> <<>>, eventId |-> <<>>, query |-> <<>>, calls |-> {},
     fetches |-> 0, status |-> 0, body |-> <<>>]

Optional(S) == {<<>>} \cup {<<x>> : x \in S}

\* An arriving request, after the session and passport middleware.
NewReq(route, s, username, password, eventId) ==
    [IdleReq EXCEPT !.route = route, !.pc = "handler", !.sess = s,
                    !.username = username, !.password = password, !.eventId = eventId]

InFlight(route) == Cardinality({r \in Reqs : reqs[r].route = route})

\* res.status(status).json(body), by request q whose handler called `calls`.
Respond(q, calls, status, body) ==
    resp' = [route |-> q.route, sess |-> q.sess, user |-> q.user,
             username |-> q.username, password |-> q.password, eventId |-> q.eventId,
             query |-> q.query, calls |-> calls, fetches |-> q.fetches,
             status |-> status, body |-> body]

\* What a read-only handler answers: the storage methods it called, the status
\* and the body.
Answer(calls, status, body) == [calls |-> calls, status |-> status, body |-> body]

\* Request q suspends in slot r at an `await`, holding `local`.
Suspend(r, q, pc, local, calls) ==
    /\ reqs' = [reqs EXCEPT ![r] = [q EXCEPT !.pc = pc, !.local = local, !.calls = calls]]
    /\ resp' = NoResp

\* A variant returning the whole record; C8 fails with it.
KeepPassword(user) == user

\* const { password, ...userWithoutPassword } = user
OmitPassword(user) == [f \in DOMAIN user \ {"password"} |-> user[f]]

\* A variant resolving every session to the oldest user; C14 fails with it.
deserializeUserOldest(s) == IF users = <<>> THEN <<>> ELSE <<users[1].v>>

\* passport.deserializeUser: the session's user id resolved through getUser.
deserializeUser(s) == IF sessionUser[s] = <<>> THEN <<>> ELSE getUser(sessionUser[s][1])

\* A variant of the guard letting every request through; C3 fails with it.
isAuthenticatedAlways(user) == TRUE

\* req.isAuthenticated(): passport set req.user.
isAuthenticated(user) == user # <<>>

\* A variant leaving the session as it was; C6 fails with it.
reqLoginNoBind(s, user) == sessionUser' = sessionUser

\* req.login(user): passport.serializeUser stores user.id in the session.
reqLogin(s, user) == sessionUser' = [sessionUser EXCEPT ![s] = <<user.id>>]

\* A variant leaving the session bound; C27 fails with it.
reqLogoutKeep(s) == sessionUser' = sessionUser

\* req.logout(): the session no longer carries a user.
reqLogout(s) == sessionUser' = [sessionUser EXCEPT ![s] = <<>>]

(***************************************************************************)
(* POST /api/auth/register                                                 *)
(***************************************************************************)
\* insertUserSchema.parse: username and password are required strings.
SchemaValid(q) == q.username # <<>> /\ q.password # <<>>

ZodErrors(q) ==
    {[path |-> f, message |-> "Required"] :
        f \in {g \in {"username", "password"} : q[g] = <<>>}}

\* Up to the call of bcrypt.hash: validation, then the username check.
RegisterStart(r, s, username, password) ==
    LET q == NewReq("register", s, username, password, <<>>) IN
    /\ reqs[r].pc = "idle"
    /\ IF ~SchemaValid(q)
       THEN /\ Respond(q, {}, 400, [message |-> "Input validation failed",
                                    errors |-> ZodErrors(q)])
            /\ UNCHANGED reqs
       ELSE IF getUserByUsername(username[1]) # <<>>
       THEN /\ Respond(q, {"getUserByUsername"}, 400, [message |-> "Username already taken"])
            /\ UNCHANGED reqs
       ELSE /\ currentUserId + InFlight("register") <= MaxUsers
            /\ Suspend(r, q, "hashing", <<>>, {"getUserByUsername"})
    /\ UNCHANGED <<storeVars, sessionUser>>

\* A variant storing the submitted password as it came; C9 fails with it.
RegisterUserDataPlain(q, salt) ==
    [username |-> q.username[1], password |-> q.password[1]]

\* The argument of createUser: the username and hashedPassword.
RegisterUserData(q, salt) ==
    [username |-> q.username[1], password |-> BcryptHash(q.password[1], salt)]

\* bcrypt.hash resolves: createUser with the hash, then req.login(user, callback),
\* which binds the session or reports that the session layer failed.
RegisterComplete(r) ==
    LET q == reqs[r] IN
    /\ q.route = "register" /\ q.pc = "hashing"
    /\ \E salt \in Salts :
          LET userData == RegisterUserData(q, salt)
              user == createUserResult(userData)
              calls == q.calls \cup {"createUser"} IN
          /\ createUser(userData)
          /\ \/ /\ reqLogin(q.sess, user)
                /\ Respond(q, calls, 201, OmitPassword(user))
             \/ /\ Respond(q, calls, 500, [message |-> "Login failed after registration"])
                /\ UNCHANGED sessionUser
    /\ reqs' = [reqs EXCEPT ![r] = IdleReq]
    /\ UNCHANGED <<favorites, currentFavoriteId, events, districtVars>>

(***************************************************************************)
(* POST /api/auth/login: the LocalStrategy verify callback, then the      *)
(* passport.authenticate callback of the route.                           *)
(***************************************************************************)
\* Up to the call of bcrypt.compare.
LoginStart(r, s, username, password) ==
    LET q == NewReq("login", s, <<username>>, <<password>>, <<>>)
        user == getUserByUsername(username) IN
    /\ reqs[r].pc = "idle"
    /\ IF user = <<>>
       THEN /\ Respond(q, {"getUserByUsername"}, 401, [message |-> "User is not registered"])
            /\ UNCHANGED reqs
       ELSE Suspend(r, q, "comparing", user, {"getUserByUsername"})
    /\ UNCHANGED <<storeVars, sessionUser>>

\* bcrypt.compare resolves; on a match the route's callback logs the user in.
LoginComplete(r) ==
    LET q == reqs[r]
        user == q.local[1] IN
    /\ q.route = "login" /\ q.pc = "comparing"
    /\ IF ~BcryptCompare(q.password[1], user.password)
       THEN /\ Respond(q, q.calls, 401, [message |-> "Incorrect password"])
            /\ UNCHANGED sessionUser
       ELSE \/ /\ reqLogin(q.sess, user)
               /\ Respond(q, q.calls, 200, OmitPassword(user))
            \/ /\ Respond(q, q.calls, 500, [message |-> "Login failed"])
               /\ UNCHANGED sessionUser
    /\ reqs' = [reqs EXCEPT ![r] = IdleReq]
    /\ UNCHANGED storeVars

(***************************************************************************)
(* POST /api/auth/logout, GET /api/auth/me                                 *)
(***************************************************************************)
Logout(s) ==
    /\ reqLogout(s)
    /\ Respond([NewReq("logout", s, <<>>, <<>>, <<>>) EXCEPT !.user = deserializeUser(s)],
               {}, 200, [message |-> "Logged out successfully"])
    /\ UNCHANGED <<storeVars, reqs>>

\* The response to GET /api/auth/me on session s.  Destructuring an undefined
\* req.user throws, which express answers with 500.
MeResponse(s) ==
    LET user == deserializeUser(s) IN
    IF ~isAuthenticated(user)
    THEN Answer({}, 401, [message |-> "Not authenticated"])
    ELSE IF user = <<>>
    THEN Answer({}, 500, [message |-> "Internal Server Error"])
    ELSE Answer({}, 200, OmitPassword(user[1]))

(***************************************************************************)
(* Favorites routes, each behind the isAuthenticated middleware.  Inside  *)
(* the handler, (req.user as any).id on an undefined req.user throws, and *)
(* the handler's catch answers 500.                                        *)
(***************************************************************************)
Unauthorized(q) == Respond(q, {}, 401, [message |-> "Unauthorized"])

\* The response to GET /api/favorites on session s.
FavListResponse(s) ==
    LET user == deserializeUser(s) IN
    IF ~isAuthenticated(user)
    THEN Answer({}, 401, [message |-> "Unauthorized"])
    ELSE IF user = <<>>
    THEN Answer({}, 500, [message |-> "Failed to fetch favorites"])
    ELSE Answer({"getUserFavorites"}, 200, getUserFavorites(user[1].id))

\* POST /api/favorites/:eventId is sent on session s: the request is under way
\* until the server runs its middleware and handler.
FavAddStart(r, s, eventId) ==
    /\ reqs[r].pc = "idle"
    /\ currentFavoriteId + InFlight("favAdd") <= MaxFavorites
    /\ Suspend(r, NewReq("favAdd", s, <<>>, <<>>, eventId), "sent", <<>>, {})
    /\ UNCHANGED <<storeVars, sessionUser>>

\* The server runs the request: passport resolves req.user, the guard and the
\* handler follow.  The handler's two awaits are on MemStorage methods, whose
\* promises are resolved when they return: the continuations run as promise
\* jobs of the same turn of the event loop, before any other request's
\* callback, so the check and the insert are one step.
FavAddComplete(r) ==
    LET q == [reqs[r] EXCEPT !.user = deserializeUser(reqs[r].sess)] IN
    /\ reqs[r].route = "favAdd" /\ reqs[r].pc = "sent"
    /\ IF ~isAuthenticated(q.user)
       THEN /\ Unauthorized(q)
            /\ UNCHANGED <<favorites, currentFavoriteId>>
       ELSE IF q.user = <<>>
       THEN /\ Respond(q, {}, 500, [message |-> "Failed to add favorite"])
            /\ UNCHANGED <<favorites, currentFavoriteId>>
       ELSE IF getFavorite(q.user[1].id, q.eventId) # <<>>
       THEN /\ Respond(q, {"getFavorite"}, 400, [message |-> "Event already in favorites"])
            /\ UNCHANGED <<favorites, currentFavoriteId>>
       ELSE /\ \E now \in Times :
                  addFavorite([userId |-> q.user[1].id, eventId |-> q.eventId], now)
            /\ Respond(q, {"getFavorite", "addFavorite"}, 201,
                       [message |-> "Added to favorites"])
    /\ reqs' = [reqs EXCEPT ![r] = IdleReq]
    /\ UNCHANGED <<users, currentUserId, events, districtVars, sessionUser>>

\* DELETE /api/favorites/:eventId
FavRemove(s, eventId) ==
    LET user == deserializeUser(s)
        q == [NewReq("favRemove", s, <<>>, <<>>, eventId) EXCEPT !.user = user] IN
    /\ IF ~isAuthenticated(user)
       THEN /\ Unauthorized(q)
            /\ UNCHANGED favorites
       ELSE IF user = <<>>
       THEN /\ Respond(q, {}, 500, [message |-> "Failed to remove favorite"])
            /\ UNCHANGED favorites
       ELSE /\ removeFavorite(user[1].id, eventId)
            /\ Respond(q, {"removeFavorite"}, 200, [message |-> "Removed from favorites"])
    /\ UNCHANGED <<users, currentUserId, currentFavoriteId, events, districtVars,
                   sessionUser, reqs>>

\* The response to GET /api/favorites/check/:eventId on session s.
FavCheckResponse(s, eventId) ==
    LET user == deserializeUser(s) IN
    IF ~isAuthenticated(user)
    THEN Answer({}, 401, [message |-> "Unauthorized"])
    ELSE IF user = <<>>
    THEN Answer({}, 500, [message |-> "Failed to check favorite status"])
    ELSE Answer({"getFavorite"}, 200,
                [isFavorite |-> getFavorite(user[1].id, eventId) # <<>>])

(***************************************************************************)
(* GET /api/events/:id: fetchEventById asks the external source, parses   *)
(* the first {...} of its answer and caches what it parsed under the      *)
(* parsed record's own id.  The answer is not validated, so the record    *)
(* may carry any id.                                                       *)
(***************************************************************************)
\* The handler reads neither the session nor req.user: the request carries none.
EventStart(r, eventId) ==
    /\ reqs[r].pc = "idle"
    /\ Suspend(r, [NewReq("eventById", "none", <<>>, <<>>, eventId) EXCEPT !.fetches = 1],
               "fetching", <<>>, {})
    /\ UNCHANGED <<storeVars, sessionUser>>

\* The source fails (network, non-200, no content, no JSON object, parse error).
EventFetchFail(r) ==
    LET q == reqs[r] IN
    /\ q.route = "eventById" /\ q.pc = "fetching"
    /\ Respond(q, q.calls, 500, [message |-> "Failed to fetch event details"])
    /\ reqs' = [reqs EXCEPT ![r] = IdleReq]
    /\ UNCHANGED <<storeVars, sessionUser>>

EventFetchParse(r) ==
    LET q == reqs[r] IN
    /\ q.route = "eventById" /\ q.pc = "fetching"
    /\ \E id \in EventIds, data \in EventData :
          LET event == <<[id |-> id, data |-> data]>>
              calls == q.calls \cup {"cacheEvent"} IN
          /\ cacheEvent(event[1])
          /\ IF event = <<>>
             THEN Respond(q, calls, 404, [message |-> "Event not found"])
             ELSE Respond(q, calls, 200, event[1])
    /\ reqs' = [reqs EXCEPT ![r] = IdleReq]
    /\ UNCHANGED <<users, currentUserId, favorites, currentFavoriteId, districtVars,
                   sessionUser>>

(***************************************************************************)
(* GET /api/events: validation of the query, then fetchEvents, which      *)
(* formats the dates, looks the district up, asks the external source     *)
(* once, parses the first [...] of its answer and caches the parsed       *)
(* array.                                                                  *)
(***************************************************************************)
IsDigit(c) == c \in {"0", "1", "2", "3", "4", "5", "6", "7", "8", "9"}

DigitValue(c) == CHOOSE d \in 0..9 : DigitChar(d) = c

\* /^\d{4}-\d{2}-\d{2}$/.test(str)
dateRegexTest(str) ==
    /\ Len(str) = 10
    /\ \A i \in {1, 2, 3, 4, 6, 7, 9, 10} : IsDigit(str[i])
    /\ str[5] = "-" /\ str[8] = "-"

TwoDigits(str, i) == 10 * DigitValue(str[i]) + DigitValue(str[i + 1])

\* new Date(str) for a string the pattern matches: <<>> is Invalid Date,
\* otherwise the time value in days, months counted at 31 days.  Days 29
\* to 31, which roll over in short months, are not among the inputs.
NewDate(str) ==
    LET year == 100 * TwoDigits(str, 1) + TwoDigits(str, 3)
        month == TwoDigits(str, 6)
        day == TwoDigits(str, 9) IN
    IF month \in 1..12 /\ day \in 1..31
    THEN <<(year * 12 + (month - 1)) * 31 + day>>
    ELSE <<>>

\* fromDate > toDate: false when either is Invalid Date (NaN).
DateGreater(a, b) == a # <<>> /\ b # <<>> /\ a[1] > b[1]

\* !param: undefined or the empty string.
Falsy(param) == param = <<>> \/ param[1] = <<>>

\* A variant without the range check; C15 fails with it.
EventsQueryErrorNoRange(query) ==
    IF Falsy(query.dateFrom) \/ Falsy(query.dateTo)
    THEN "dateFrom and dateTo are required"
    ELSE IF ~dateRegexTest(query.dateFrom[1]) \/ ~dateRegexTest(query.dateTo[1])
    THEN "Invalid date format. Please use YYYY-MM-DD format."
    ELSE ""

\* The route's three checks; "" when the query passes them.
EventsQueryError(query) ==
    IF Falsy(query.dateFrom) \/ Falsy(query.dateTo)
    THEN "dateFrom and dateTo are required"
    ELSE IF ~dateRegexTest(query.dateFrom[1]) \/ ~dateRegexTest(query.dateTo[1])
    THEN "Invalid date format. Please use YYYY-MM-DD format."
    ELSE IF DateGreater(NewDate(query.dateFrom[1]), NewDate(query.dateTo[1]))
    THEN "dateFrom must be before or equal to dateTo"
    ELSE ""

\* new Date(...).toISOString() throws RangeError on an Invalid Date.
ToISOStringThrows(query) ==
    NewDate(query.dateFrom[1]) = <<>> \/ NewDate(query.dateTo[1]) = <<>>

FailedToFetchEvents ==
    [message |-> "Failed to fetch events",
     error |-> "Failed to fetch events. Please try again later."]

\* Up to the call of fetch.
EventsStart(r, query) ==
    LET q == [NewReq("events", "none", <<>>, <<>>, <<>>) EXCEPT !.query = <<query>>]
        error == EventsQueryError(query) IN
    /\ reqs[r].pc = "idle"
    /\ IF error # ""
       THEN /\ Respond(q, {}, 400, [message |-> error])
            /\ UNCHANGED reqs
       ELSE IF ToISOStringThrows(query)
       THEN /\ Respond(q, {}, 500, FailedToFetchEvents)
            /\ UNCHANGED reqs
       ELSE Suspend(r, [q EXCEPT !.fetches = 1], "fetching", <<>>,
                    IF Falsy(query.district) THEN {} ELSE {"getDistrictByValue"})
    /\ UNCHANGED <<storeVars, sessionUser>>

\* The source fails (network, non-200, no content, no JSON array, parse error).
EventsFetchFail(r) ==
    LET q == reqs[r] IN
    /\ q.route = "events" /\ q.pc = "fetching"
    /\ Respond(q, q.calls, 500, FailedToFetchEvents)
    /\ reqs' = [reqs EXCEPT ![r] = IdleReq]
    /\ UNCHANGED <<storeVars, sessionUser>>

\* The arrays the source's answer parses to: records and nulls.
SourceLists ==
    LET elements == Optional([id : EventIds, data : ListedData]) IN
    {<<>>} \cup {<<a>> : a \in elements} \cup {<<a, b>> : a, b \in elements}

\* The answer parses: cacheEvents, which throws at a null after caching what
\* came before it; fetchEvents rethrows and the route answers 500.
EventsFetchParse(r) ==
    LET q == reqs[r] IN
    /\ q.route = "events" /\ q.pc = "fetching"
    /\ \E list \in SourceLists :
          LET calls == q.calls \cup {"cacheEvents"} IN
          /\ cacheEvents(list)
          /\ IF cacheEventsThrows(list)
             THEN Respond(q, calls, 500, FailedToFetchEvents)
             ELSE Respond(q, calls, 200, [i \in DOMAIN list |-> list[i][1]])
    /\ reqs' = [reqs EXCEPT ![r] = IdleReq]
    /\ UNCHANGED <<users, currentUserId, favorites, currentFavoriteId, districtVars,
                   sessionUser>>

(***************************************************************************)
(* Districts: addDistrict as a caller of the storage interface uses it,   *)
(* and GET /api/districts.                                                 *)
(***************************************************************************)
AddDistrict(districtData) ==
    /\ addDistrict(districtData)
    /\ resp' = NoResp
    /\ UNCHANGED <<users, currentUserId, favorites, currentFavoriteId, events,
                   sessionUser, reqs>>

\* The response to GET /api/districts.
DistrictsResponse == Answer({"getAllDistricts"}, 200, getAllDistricts)

(***************************************************************************)
(* The browser of session s1: one EventCard, as the search results or the *)
(* Favorites page render it.  Both pages pass the event alone, so the     *)
(* card's isFavorite state starts from the default of the prop.  The card *)
(* holds the state and whether its toggle mutation is pending.  useAuth's *)
(* user is the user the session carries.                                   *)
(***************************************************************************)
NoCard ==
    [mounted |-> FALSE, page |-> "none", eventId |-> <<>>, isFavorite |-> FALSE,
     isPending |-> FALSE]

(***************************************************************************)
(* The system.                                                             *)
(***************************************************************************)
Init ==
    /\ users = <<>>
    /\ currentUserId = 1
    /\ favorites = <<>>
    /\ currentFavoriteId = 1
    /\ events = <<>>
    /\ districts = initializeDistricts(Len(districtsData))
    /\ currentDistrictId = Len(districtsData) + 1
    /\ sessionUser = [s \in Sessions |-> <<>>]
    /\ reqs = [r \in Reqs |-> IdleReq]
    /\ resp = NoResp
    /\ card = NoCard

\* An arriving request takes the first free slot.
HasFreeSlot == \E r \in Reqs : reqs[r].pc = "idle"

FreeSlot ==
    ReqOrder[CHOOSE i \in DOMAIN ReqOrder :
                /\ reqs[ReqOrder[i]].pc = "idle"
                /\ \A j \in 1..(i - 1) : reqs[ReqOrder[j]].pc # "idle"]

\* The EventCard and the pages that render it.
\* isFavorite: initialIsFavorite = false
initialIsFavorite == FALSE

\* useState(initialIsFavorite) of a card mounted for an event.
EventCard(page, eventId) ==
    [mounted |-> TRUE, page |-> page, eventId |-> eventId,
     isFavorite |-> initialIsFavorite, isPending |-> FALSE]

\* The Favorites page maps what GET /api/favorites answered to cards.
RenderFavorites(eventId) ==
    LET answer == FavListResponse("s1") IN
    /\ ~card.isPending
    /\ answer.status = 200
    /\ \E i \in DOMAIN answer.body : answer.body[i].id = eventId
    /\ card' = EventCard("favorites", eventId)
    /\ resp' = NoResp
    /\ UNCHANGED <<storeVars, sessionUser, reqs>>

\* The search results map the events of a search to cards; fetchEvents has
\* cached every event a search returned.
RenderSearchResults(eventId) ==
    /\ ~card.isPending
    /\ MapHas(events, eventId)
    /\ card' = EventCard("search", eventId)
    /\ resp' = NoResp
    /\ UNCHANGED <<storeVars, sessionUser, reqs>>

\* setIsFavorite(!isFavorite)
onSuccess(c) == [c EXCEPT !.isFavorite = ~c.isFavorite, !.isPending = FALSE]

\* A toast; the state stays.
onError(c) == [c EXCEPT !.isPending = FALSE]

\* handleFavoriteClick with a user, and mutationFn: DELETE when the card's
\* state says favorite, POST otherwise.  The DELETE is sent, run and answered
\* in this step; the POST is under way until FavAddComplete.
handleFavoriteClick ==
    /\ card.mounted /\ ~card.isPending
    /\ deserializeUser("s1") # <<>>
    /\ IF card.isFavorite
       THEN /\ FavRemove("s1", card.eventId)
            /\ card' = IF resp'.status = 200 THEN onSuccess(card) ELSE onError(card)
       ELSE /\ HasFreeSlot
            /\ FavAddStart(FreeSlot, "s1", card.eventId)
            /\ card' = [card EXCEPT !.isPending = TRUE]

\* The card's POST is run and answered: apiRequest throws unless res.ok.
MutationSettled(r) ==
    /\ card.isPending
    /\ FavAddComplete(r)
    /\ card' = IF resp'.status = 201 THEN onSuccess(card) ELSE onError(card)

\* The authentication routes.
NextAuth ==
    \/ \E s \in Sessions, b \in RegisterBodies :
          HasFreeSlot /\ RegisterStart(FreeSlot, s, b.username, b.password)
          /\ UNCHANGED card
    \/ \E r \in Reqs : RegisterComplete(r) /\ UNCHANGED card
    \/ \E s \in Sessions, c \in Credentials :
          HasFreeSlot /\ LoginStart(FreeSlot, s, c.username, c.password) /\ UNCHANGED card
    \/ \E r \in Reqs : LoginComplete(r) /\ UNCHANGED card
    \/ \E s \in Sessions : Logout(s) /\ UNCHANGED card

SpecAuth == Init /\ [][NextAuth]_vars

\* Among the favorites routes each client registers under a name of its own.
ClientName(s) == IF s = "s1" THEN "alice" ELSE "bob"

\* The favorites and event routes, with the registration that opens them.
NextFavorites ==
    \/ \E s \in Sessions :
          /\ HasFreeSlot
          /\ currentUserId + InFlight("register") <= MaxClients
          /\ RegisterStart(FreeSlot, s, <<ClientName(s)>>, <<<<"secret1">>>>)
          /\ UNCHANGED card
    \/ \E r \in Reqs : RegisterComplete(r) /\ UNCHANGED card
    \/ \E s \in Sessions, e \in EventIds :
          HasFreeSlot /\ FavAddStart(FreeSlot, s, e) /\ UNCHANGED card
    \/ \E r \in Reqs : FavAddComplete(r) /\ UNCHANGED card
    \/ \E s \in Sessions, e \in EventIds : FavRemove(s, e) /\ UNCHANGED card
    \/ \E e \in EventIds : HasFreeSlot /\ EventStart(FreeSlot, e) /\ UNCHANGED card
    \/ \E r \in Reqs : EventFetchFail(r) /\ UNCHANGED card
    \/ \E r \in Reqs : EventFetchParse(r) /\ UNCHANGED card

SpecFavorites == Init /\ [][NextFavorites]_vars

\* The event routes.
NextEvents ==
    \/ \E query \in Queries :
          HasFreeSlot /\ EventsStart(FreeSlot, query) /\ UNCHANGED card
    \/ \E r \in Reqs : EventsFetchFail(r) /\ UNCHANGED card
    \/ \E r \in Reqs : EventsFetchParse(r) /\ UNCHANGED card
    \/ \E e \in EventIds : HasFreeSlot /\ EventStart(FreeSlot, e) /\ UNCHANGED card
    \/ \E r \in Reqs : EventFetchFail(r) /\ UNCHANGED card
    \/ \E r \in Reqs : EventFetchParse(r) /\ UNCHANGED card

SpecEvents == Init /\ [][NextEvents]_vars

\* The district store.
NextDistricts ==
    \E districtData \in NewDistricts :
       /\ currentDistrictId <= Len(districtsData) + MaxDistricts
       /\ AddDistrict(districtData)
       /\ UNCHANGED card

SpecDistricts == Init /\ [][NextDistricts]_vars

\* The favorites store and the event cache as any caller of IStorage may use
\* them: the methods called directly, in every order.
AddFavorite(favoriteData) ==
    /\ \E now \in Times : addFavorite(favoriteData, now)
    /\ resp' = NoResp
    /\ UNCHANGED <<users, currentUserId, events, districtVars, sessionUser, reqs>>

RemoveFavorite(userId, eventId) ==
    /\ removeFavorite(userId, eventId)
    /\ resp' = NoResp
    /\ UNCHANGED <<users, currentUserId, currentFavoriteId, events, districtVars,
                   sessionUser, reqs>>

CacheEvent(event) ==
    /\ cacheEvent(event)
    /\ resp' = NoResp
    /\ UNCHANGED <<users, currentUserId, favorites, currentFavoriteId, districtVars,
                   sessionUser, reqs>>

NextStorage ==
    \/ \E userId \in 1..MaxUsers, eventId \in EventIds :
          /\ currentFavoriteId <= MaxFavorites + 1
          /\ AddFavorite([userId |-> userId, eventId |-> eventId])
          /\ UNCHANGED card
    \/ \E userId \in 1..MaxUsers, eventId \in EventIds :
          RemoveFavorite(userId, eventId) /\ UNCHANGED card
    \/ \E id \in EventIds, data \in EventData :
          CacheEvent([id |-> id, data |-> data]) /\ UNCHANGED card

SpecStorage == Init /\ [][NextStorage]_vars

\* No request is under way or suspended.
NoneInFlight == \A r \in Reqs : reqs[r].pc = "idle"

\* The favorites routes used by two clients, each registered under its name;
\* a request is sent once the last one is answered.
NextTwoClients ==
    \/ \E s \in Sessions :
          NoneInFlight /\ RegisterStart(FreeSlot, s, <<ClientName(s)>>, <<<<"secret1">>>>)
          /\ UNCHANGED card
    \/ \E r \in Reqs : RegisterComplete(r) /\ UNCHANGED card
    \/ \E s \in Sessions, e \in EventIds :
          NoneInFlight /\ FavAddStart(FreeSlot, s, e) /\ UNCHANGED card
    \/ \E r \in Reqs : FavAddComplete(r) /\ UNCHANGED card
    \/ \E s \in Sessions, e \in EventIds : FavRemove(s, e) /\ UNCHANGED card
    \/ \E e \in EventIds : NoneInFlight /\ EventStart(FreeSlot, e) /\ UNCHANGED card
    \/ \E r \in Reqs : EventFetchParse(r) /\ UNCHANGED card

SpecTwoClients == Init /\ [][NextTwoClients]_vars

\* The queries of GET /api/events sent alongside the other routes: one that
\* fails validation, one that passes it, one that passes it and names a district.
RouteQueries ==
    {[dateFrom |-> <<Jan02>>, dateTo |-> <<Jan01>>, district |-> <<>>],
     [dateFrom |-> <<Jan01>>, dateTo |-> <<Jan02>>, district |-> <<>>],
     [dateFrom |-> <<Jan01>>, dateTo |-> <<Jan02>>, district |-> <<<<"central">>>>]}

\* Every route registerRoutes mounts, requested by one client, a request
\* being sent once the last one is answered.
NextRoutes ==
    \/ /\ NoneInFlight
       /\ currentUserId + InFlight("register") <= MaxClients
       /\ RegisterStart(FreeSlot, "s1", <<ClientName("s1")>>, <<<<"secret1">>>>)
       /\ UNCHANGED card
    \/ \E r \in Reqs : RegisterComplete(r) /\ UNCHANGED card
    \/ \E c \in Credentials :
          NoneInFlight /\ LoginStart(FreeSlot, "s1", c.username, c.password)
          /\ UNCHANGED card
    \/ \E r \in Reqs : LoginComplete(r) /\ UNCHANGED card
    \/ Logout("s1") /\ UNCHANGED card
    \/ \E e \in EventIds :
          NoneInFlight /\ FavAddStart(FreeSlot, "s1", e) /\ UNCHANGED card
    \/ \E r \in Reqs : FavAddComplete(r) /\ UNCHANGED card
    \/ \E e \in EventIds : FavRemove("s1", e) /\ UNCHANGED card
    \/ \E query \in RouteQueries :
          NoneInFlight /\ EventsStart(FreeSlot, query) /\ UNCHANGED card
    \/ \E r \in Reqs : EventsFetchFail(r) /\ UNCHANGED card
    \/ \E r \in Reqs : EventsFetchParse(r) /\ UNCHANGED card
    \/ \E e \in EventIds : NoneInFlight /\ EventStart(FreeSlot, e) /\ UNCHANGED card
    \/ \E r \in Reqs : EventFetchFail(r) /\ UNCHANGED card
    \/ \E r \in Reqs : EventFetchParse(r) /\ UNCHANGED card

SpecRoutes == Init /\ [][NextRoutes]_vars

\* The browser of session s1: it registers, events get cached, and the
\* cards are rendered and clicked.
NextClient ==
    \/ /\ HasFreeSlot
       /\ currentUserId + InFlight("register") <= MaxClients
       /\ RegisterStart(FreeSlot, "s1", <<ClientName("s1")>>, <<<<"secret1">>>>)
       /\ UNCHANGED card
    \/ \E r \in Reqs : RegisterComplete(r) /\ UNCHANGED card
    \/ \E e \in EventIds : HasFreeSlot /\ EventStart(FreeSlot, e) /\ UNCHANGED card
    \/ \E r \in Reqs : EventFetchParse(r) /\ UNCHANGED card
    \/ \E e \in EventIds : RenderSearchResults(e)
    \/ \E e \in EventIds : RenderFavorites(e)
    \/ handleFavoriteClick
    \/ \E r \in Reqs : MutationSettled(r)

SpecClient == Init /\ [][NextClient]_vars

(***************************************************************************)
(* Vocabulary of the properties.                                           *)
(***************************************************************************)
UserRecords == {users[i].v : i \in DOMAIN users}

UsernameStored(username) == \E user \in UserRecords : user.username = username

\* The record with the least id among those of a username.
FirstUserNamed(username) ==
    CHOOSE user \in UserRecords :
        /\ user.username = username
        /\ \A other \in UserRecords : other.username = username => user.id <= other.id

StoredIn(favs, userId, eventId) ==
    \E i \in DOMAIN favs : favs[i].v.userId = userId /\ favs[i].v.eventId = eventId

PairStored(userId, eventId) == StoredIn(favorites, userId, eventId)

IsHashOf(h, password) == \E salt \in Salts : h = BcryptHash(password, salt)

Message(body) == IF "message" \in DOMAIN body THEN body.message ELSE "(none)"

(***************************************************************************)
(* C1: in every reachable state, also when two registrations of one       *)
(* username interleave, no two user records share a username.             *)
(***************************************************************************)
C1_UsernamesUnique ==
    \A i, j \in DOMAIN users : users[i].v.username = users[j].v.username => i = j

(***************************************************************************)
(* C2: in every reachable state the Favorite Store holds at most one      *)
(* record per (userId, eventId), and getUserFavorites of any user lists   *)
(* no event twice, also after addFavorite ran twice for one pair.          *)
(***************************************************************************)
C2_OneFavoritePerPair ==
    /\ \A i, j \in DOMAIN favorites :
          (/\ favorites[i].v.userId = favorites[j].v.userId
           /\ favorites[i].v.eventId = favorites[j].v.eventId) => i = j
    /\ \A userId \in 1..(MaxUsers + 1) :
          LET listed == getUserFavorites(userId) IN
          \A i, j \in DOMAIN listed : listed[i].id = listed[j].id => i = j

\* addFavorite has run three times, the last two for one pair with no
\* removeFavorite since: the pair is stored once, by the third call, and its
\* event is listed once.
C2_AddedTwice ==
    /\ currentFavoriteId = 4
    /\ Len(favorites) = 2
    /\ favorites[1].v.id = 3 /\ favorites[2].v.id = 2
    /\ favorites[1].v.userId = 1 /\ favorites[2].v.userId = 1
    /\ Len(getUserFavorites(1)) = 2

(***************************************************************************)
(* C3: a request on a session without an authenticated user to any of the *)
(* four favorites routes is answered 401 Unauthorized, its handler calls  *)
(* no storage method, and the step leaves all three stores unchanged.     *)
(***************************************************************************)
C3_UnauthenticatedAnswer == Answer({}, 401, [message |-> "Unauthorized"])

C3_GuardedRoutesRefuse ==
    /\ [](\A s \in Sessions :
             deserializeUser(s) = <<>> =>
                /\ FavListResponse(s) = C3_UnauthenticatedAnswer
                /\ \A eventId \in EventIds :
                      FavCheckResponse(s, eventId) = C3_UnauthenticatedAnswer)
    /\ [](resp.route \in {"favAdd", "favRemove"} /\ resp.user = <<>> =>
             /\ resp.status = 401
             /\ resp.calls = {}
             /\ resp.body = [message |-> "Unauthorized"])
    /\ [][resp'.route \in {"favAdd", "favRemove"} /\ resp'.user = <<>> =>
             UNCHANGED storeVars]_vars

\* An unauthenticated DELETE was refused while a favorite was there to delete.
C3_RefusedWithFavoritesStored ==
    /\ resp.route = "favRemove" /\ resp.status = 401 /\ resp.user = <<>>
    /\ favorites # <<>>

(***************************************************************************)
(* C4: POST /api/favorites/:eventId by an authenticated user answers 400  *)
(* 'Event already in favorites' without changing the Favorite Store when  *)
(* a record of (user, eventId) exists at the check, and otherwise goes on *)
(* to addFavorite and answers 201 with the pair stored; hence a second    *)
(* POST for a pair whose first POST was answered 201, with no DELETE in   *)
(* between, is answered 400.                                               *)
(***************************************************************************)
C4_AddFavoriteStep ==
    /\ resp'.route = "favAdd" /\ resp'.user # <<>> =>
          LET userId == resp'.user[1].id
              eventId == resp'.eventId IN
          /\ resp'.status \in {201, 400}
          /\ resp'.status = 400 =>
                /\ StoredIn(favorites, userId, eventId)
                /\ resp'.body = [message |-> "Event already in favorites"]
                /\ UNCHANGED <<favorites, currentFavoriteId>>
          /\ resp'.status = 201 =>
                /\ "addFavorite" \in resp'.calls
                /\ StoredIn(favorites', userId, eventId)
                /\ currentFavoriteId' = currentFavoriteId + 1
          \* answered straight after the check: the pair was stored
          /\ "addFavorite" \notin resp'.calls => resp'.status = 400
          \* answered after addFavorite: 201
          /\ "addFavorite" \in resp'.calls => resp'.status = 201
          \* a POST that passes the check found no record of its pair
          /\ resp'.status = 201 => ~StoredIn(favorites, userId, eventId)

C4_PostFavorite == [][C4_AddFavoriteStep]_vars

\* The only addFavorite so far answered 201 and a later POST of a stored pair
\* was answered 400.
C4_SecondPostRefused ==
    /\ resp.route = "favAdd" /\ resp.status = 400
    /\ currentFavoriteId = 2 /\ Len(favorites) = 1
    /\ favorites[1].v.eventId = resp.eventId

(***************************************************************************)
(* C5: POST /api/auth/login answers 401 'User is not registered' exactly  *)
(* when no user has the username, 401 'Incorrect password' when the user  *)
(* exists and the password does not match the stored hash, and 200 only   *)
(* when it matches, binding the session to that user's id; a login that   *)
(* is not answered 200 leaves every session as it was.                     *)
(***************************************************************************)
C5_LoginAnswer ==
    resp.route = "login" =>
       LET username == resp.username[1]
           password == resp.password[1] IN
       /\ resp.status \in {200, 401, 500}
       /\ resp.status = 401 =>
             Message(resp.body) \in {"User is not registered", "Incorrect password"}
       /\ ~UsernameStored(username) <=>
             resp.status = 401 /\ Message(resp.body) = "User is not registered"
       /\ Message(resp.body) = "Incorrect password" =>
             /\ resp.status = 401
             /\ ~IsHashOf(FirstUserNamed(username).password, password)
       /\ UsernameStored(username) =>
             LET user == FirstUserNamed(username) IN
             /\ ~IsHashOf(user.password, password) =>
                   resp.status = 401 /\ Message(resp.body) = "Incorrect password"
             /\ resp.status = 200 =>
                   /\ IsHashOf(user.password, password)
                   /\ sessionUser[resp.sess] = <<user.id>>
                   /\ resp.body = [id |-> user.id, username |-> username]

C5_Login ==
    /\ []C5_LoginAnswer
    /\ [][resp'.route = "login" /\ resp'.status # 200 => UNCHANGED sessionUser]_vars

\* A login with a registered username and a wrong password was answered.
C5_WrongPasswordRefused ==
    /\ resp.route = "login" /\ resp.status = 401
    /\ resp.body = [message |-> "Incorrect password"]
    /\ UsernameStored(resp.username[1])
    /\ sessionUser[resp.sess] = <<>>

(***************************************************************************)
(* C6: when POST /api/auth/register answers 201 for username u, its       *)
(* session is bound to the user just created: GET /api/auth/me on that    *)
(* session answers 200 with that user's id and u, and the guard of the    *)
(* favorites routes lets the session through.                              *)
(***************************************************************************)
C6_RegistrationLogsIn ==
    resp.route = "register" /\ resp.status = 201 =>
       LET s == resp.sess
           username == resp.username[1] IN
       /\ resp.body = [id |-> currentUserId - 1, username |-> username]
       /\ sessionUser[s] = <<resp.body.id>>
       /\ MeResponse(s) = Answer({}, 200, [id |-> resp.body.id, username |-> username])
       /\ isAuthenticated(deserializeUser(s))
       /\ FavListResponse(s).status = 200
       /\ \A eventId \in EventIds : FavCheckResponse(s, eventId).status = 200

\* The second registration to complete was answered 201.
C6_RegisteredOnUsedSession ==
    /\ resp.route = "register" /\ resp.status = 201
    /\ resp.body.id = 2

(***************************************************************************)
(* C7: POST /api/auth/register with a body that fails the schema is       *)
(* answered 400 'Input validation failed' before any storage method is    *)
(* called; with a valid body whose username exists at the check it is     *)
(* answered 400 'Username already taken'; and a step that answers 400     *)
(* leaves the user records, the id counter and every session unchanged.   *)
(***************************************************************************)
C7_RegisterStep ==
    /\ resp'.route = "register" =>
          /\ resp'.username = <<>> \/ resp'.password = <<>> =>
                /\ resp'.status = 400
                /\ resp'.calls = {}
                /\ Message(resp'.body) = "Input validation failed"
          /\ resp'.status = 400 =>
                /\ UNCHANGED <<users, currentUserId, sessionUser>>
                /\ "createUser" \notin resp'.calls
                /\ Message(resp'.body) = "Username already taken" =>
                      UsernameStored(resp'.username[1])
    \* a registration that passes the check found no user of its username
    /\ \A r \in Reqs :
          reqs[r].pc = "idle" /\ reqs'[r].pc = "hashing" =>
             ~UsernameStored(reqs'[r].username[1])

C7_RegisterRefusal == [][C7_RegisterStep]_vars

\* A registration of a stored username was refused.
C7_TakenUsernameRefused ==
    /\ resp.route = "register" /\ resp.status = 400
    /\ resp.body = [message |-> "Username already taken"]
    /\ UsernameStored(resp.username[1])

(***************************************************************************)
(* C8: no body answered by POST /api/auth/register, POST /api/auth/login  *)
(* or GET /api/auth/me has a password field, on success or on failure: a  *)
(* success body is exactly {id, username}, a failure body a fixed message *)
(* and, for a validation failure, the names of the missing fields.        *)
(***************************************************************************)
C8_Messages ==
    {"Input validation failed", "Username already taken",
     "Login failed after registration", "User is not registered",
     "Incorrect password", "Login failed", "Not authenticated"}

C8_BodyWithoutPassword(body) ==
    /\ "password" \notin DOMAIN body
    /\ \/ /\ DOMAIN body = {"id", "username"}
          /\ body.id \in 1..(MaxUsers + 1)
          /\ body.username \in {c.username : c \in Credentials}
       \/ /\ DOMAIN body = {"message"}
          /\ body.message \in C8_Messages
       \/ /\ DOMAIN body = {"message", "errors"}
          /\ body.message \in C8_Messages
          /\ body.errors \subseteq [path : {"username", "password"}, message : {"Required"}]

C8_NoPasswordInBodies ==
    /\ resp.route \in {"register", "login"} => C8_BodyWithoutPassword(resp.body)
    /\ \A s \in Sessions : C8_BodyWithoutPassword(MeResponse(s).body)

\* A login was answered 200 with the user, whose record holds a password.
C8_LoginAnsweredWithUser ==
    /\ resp.route = "login" /\ resp.status = 200
    /\ "password" \in DOMAIN FirstUserNamed(resp.username[1])
    /\ MeResponse(resp.sess).status = 200

(***************************************************************************)
(* C9: in every reachable state every stored user's password is a bcrypt  *)
(* hash of a submitted password and differs from every submitted          *)
(* plaintext; the user a registration answered 201 for holds the hash of  *)
(* the password that registration submitted, not the password itself.     *)
(***************************************************************************)
C9_SubmittedPasswords == {c.password : c \in Credentials}

C9_PasswordsHashed ==
    /\ \A user \in UserRecords :
          /\ \E password \in C9_SubmittedPasswords : IsHashOf(user.password, password)
          /\ user.password \notin C9_SubmittedPasswords
    /\ resp.route = "register" /\ resp.status = 201 =>
          LET user == getUser(resp.body.id)[1] IN
          /\ IsHashOf(user.password, resp.password[1])
          /\ user.password # resp.password[1]

\* A registration was answered 201 and its user is stored.
C9_UserStored ==
    /\ resp.route = "register" /\ resp.status = 201
    /\ getUser(resp.body.id) # <<>>

(***************************************************************************)
(* C10: when DELETE /api/favorites/:eventId by an authenticated user is   *)
(* answered 200, which is removeFavorite for (user, eventId), getFavorite *)
(* for the pair finds nothing and GET /api/favorites/check/:eventId on    *)
(* that session answers isFavorite false; also when the pair was added    *)
(* before.                                                                 *)
(***************************************************************************)
C10_RemovedIsGone ==
    resp.route = "favRemove" /\ resp.status = 200 =>
       /\ getFavorite(resp.user[1].id, resp.eventId) = <<>>
       /\ ~PairStored(resp.user[1].id, resp.eventId)
       /\ FavCheckResponse(resp.sess, resp.eventId) =
             Answer({"getFavorite"}, 200, [isFavorite |-> FALSE])

\* The one favorite ever added was removed.
C10_AddedThenRemoved ==
    /\ resp.route = "favRemove" /\ resp.status = 200
    /\ currentFavoriteId = 2
    /\ favorites = <<>>

(***************************************************************************)
(* C11: DELETE /api/favorites/:eventId by an authenticated user for a     *)
(* pair that has no Favorite is answered 200, not an error, and           *)
(* removeFavorite leaves every Favorite record and the favorite id        *)
(* counter as they were.                                                   *)
(***************************************************************************)
C11_RemoveAbsentStep ==
    resp'.route = "favRemove" /\ resp'.user # <<>>
        /\ ~StoredIn(favorites, resp'.user[1].id, resp'.eventId) =>
       /\ resp'.status = 200
       /\ resp'.body = [message |-> "Removed from favorites"]
       /\ resp'.calls = {"removeFavorite"}
       /\ UNCHANGED <<favorites, currentFavoriteId>>

C11_RemoveAbsentIsNoOp == [][C11_RemoveAbsentStep]_vars

\* The one favorite ever added is still stored after a DELETE answered 200:
\* the DELETE was for a pair without a record.
C11_AbsentPairRemoved ==
    /\ resp.route = "favRemove" /\ resp.status = 200
    /\ currentFavoriteId = 2
    /\ Len(favorites) = 1

(***************************************************************************)
(* C12: in the state right after createUser(u, h) returned record r,      *)
(* whatever the store held before, getUserByUsername(u) returns a record  *)
(* whose id is r.id.  createUser is the step of a registration that       *)
(* answers with "createUser" among its calls; r.id is the id counter's    *)
(* value before the call.                                                  *)
(***************************************************************************)
C12_CreatedUserIsFound ==
    resp.route = "register" /\ "createUser" \in resp.calls =>
       LET found == getUserByUsername(resp.username[1]) IN
       /\ found # <<>>
       /\ found[1].id = currentUserId - 1

(***************************************************************************)
(* C13: for every user id, getUserFavorites returns exactly the Event     *)
(* Cache records whose id is the eventId of a Favorite of that user: a    *)
(* favorited event that is not cached is left out, a cached event the     *)
(* user has not favorited does not appear; GET /api/favorites answers     *)
(* with that list.                                                         *)
(***************************************************************************)
C13_FavoritedAndCached(userId) ==
    {events[i].v : i \in {j \in DOMAIN events : PairStored(userId, events[j].v.id)}}

C13_UserFavoritesJoin ==
    /\ \A userId \in 1..(MaxUsers + 1) :
          LET listed == getUserFavorites(userId) IN
          {listed[i] : i \in DOMAIN listed} = C13_FavoritedAndCached(userId)
    /\ \A s \in Sessions :
          deserializeUser(s) # <<>> =>
             LET answer == FavListResponse(s) IN
             /\ answer.status = 200
             /\ {answer.body[i] : i \in DOMAIN answer.body} =
                   C13_FavoritedAndCached(deserializeUser(s)[1].id)

\* A user has two favorites, one of them of an event that is not cached.
C13_OneFavoriteNotCached ==
    /\ Len(favorites) = 2
    /\ favorites[1].v.userId = favorites[2].v.userId
    /\ Len(events) = 1
    /\ Len(getUserFavorites(favorites[1].v.userId)) = 1

(***************************************************************************)
(* C14: GET /api/auth/me answers 200 with the user bound to the session,  *)
(* without the password, exactly when the session carries a user id that  *)
(* getUser resolves to a stored record; on a session that carries no id,  *)
(* or an id no record has, it answers 401 'Not authenticated'.            *)
(***************************************************************************)
C14_MeFollowsSession ==
    \A s \in Sessions :
       LET resolved == IF sessionUser[s] = <<>> THEN <<>> ELSE MapGet(users, sessionUser[s][1])
           answer == MeResponse(s) IN
       /\ answer.status \in {200, 401}
       /\ answer.status = 200 <=> resolved # <<>>
       /\ resolved # <<>> =>
             answer.body = [id |-> resolved[1].id, username |-> resolved[1].username]
       /\ resolved = <<>> => answer.body = [message |-> "Not authenticated"]

\* After a logout one session is answered 401 while another is answered 200.
C14_OneSessionBoundOneNot ==
    /\ resp.route = "logout"
    /\ users # <<>>
    /\ MeResponse(resp.sess).status = 401
    /\ \E s \in Sessions : MeResponse(s).status = 200

(***************************************************************************)
(* Vocabulary of the GET /api/events properties: what a query is, apart   *)
(* from how the route decides it.                                          *)
(***************************************************************************)
DateMissing(param) == param = <<>> \/ param = <<<<>>>>

DateMalformed(param) == ~DateMissing(param) /\ ~dateRegexTest(param[1])

\* Both parameters name calendar dates and the first is the later one.
DateFromLater(query) ==
    /\ ~DateMissing(query.dateFrom) /\ ~DateMalformed(query.dateFrom)
    /\ ~DateMissing(query.dateTo) /\ ~DateMalformed(query.dateTo)
    /\ NewDate(query.dateFrom[1]) # <<>> /\ NewDate(query.dateTo[1]) # <<>>
    /\ NewDate(query.dateFrom[1])[1] > NewDate(query.dateTo[1])[1]

\* Both dates present and pattern-matching, dateFrom not later than dateTo.
PassesValidation(query) ==
    /\ ~DateMissing(query.dateFrom) /\ ~DateMissing(query.dateTo)
    /\ ~DateMalformed(query.dateFrom) /\ ~DateMalformed(query.dateTo)
    /\ ~DateFromLater(query)

(***************************************************************************)
(* C15: GET /api/events with dateFrom or dateTo missing, or either not    *)
(* matching dddd-dd-dd, or dateFrom a later date than dateTo, is answered *)
(* 400 in the step it arrives in, without a call to the external source   *)
(* or to storage and with the Event Cache unchanged; no such request is   *)
(* ever waiting for the source.                                            *)
(***************************************************************************)
C15_EventsStep ==
    /\ resp'.route = "events" /\ ~PassesValidation(resp'.query[1]) =>
          /\ resp'.status = 400
          /\ resp'.fetches = 0
          /\ resp'.calls = {}
          /\ UNCHANGED events
    /\ \A r \in Reqs :
          reqs'[r].route = "events" => PassesValidation(reqs'[r].query[1])

C15_BadQueryRefused == [][C15_EventsStep]_vars

\* An inverted range was answered 400 while the Event Cache held records.
C15_InvertedRangeRefused ==
    /\ resp.route = "events" /\ resp.status = 400
    /\ resp.query[1].dateFrom = <<Jan02>> /\ resp.query[1].dateTo = <<Jan01>>
    /\ resp.body = [message |-> "dateFrom must be before or equal to dateTo"]
    /\ events # <<>>

(***************************************************************************)
(* C16: every GET /api/events request that passes validation is answered  *)
(* after exactly one call to the external event source: 200 with the      *)
(* parsed list when the call succeeded, 500 otherwise; no answer is sent  *)
(* with zero calls or with more than one.                                  *)
(***************************************************************************)
C16_ValidatedFetchesOnce ==
    resp.route = "events" /\ PassesValidation(resp.query[1]) =>
       /\ resp.fetches = 1
       /\ resp.status \in {200, 500}
       /\ resp.status = 200 => "cacheEvents" \in resp.calls

(***************************************************************************)
(* C17: GET /api/events/:id is answered 500 when the call to the external *)
(* source fails and otherwise 200 with the event when the source has an   *)
(* event for the identifier and 404 when it has none.                      *)
(***************************************************************************)
C17_EventByIdAnswer ==
    resp.route = "eventById" =>
       LET sourceAnswered == "cacheEvent" \in resp.calls IN
       /\ resp.status \in {200, 404, 500}
       /\ resp.status = 500 <=> ~sourceAnswered
       /\ sourceAnswered =>
             /\ resp.status = 404 <=> resp.eventId \notin SourceEventIds
             /\ resp.status = 200 => DOMAIN resp.body = {"id", "data"}

(***************************************************************************)
(* C18: a step in which GET /api/events or GET /api/events/:id answers    *)
(* 500 leaves the Event Cache as it was, as does the step in which the    *)
(* request was taken in, and the 500 body holds a message and no event    *)
(* record.                                                                 *)
(***************************************************************************)
C18_FailureStep ==
    /\ resp'.route \in {"events", "eventById"} /\ resp'.status = 500 =>
          /\ UNCHANGED events
          /\ DOMAIN resp'.body \subseteq {"message", "error"}
    /\ (\E r \in Reqs : reqs[r].pc = "idle" /\ reqs'[r].pc = "fetching") =>
          UNCHANGED events

C19_LastWithId(list, id) ==
    list[CHOOSE i \in DOMAIN list :
            /\ list[i].id = id
            /\ \A j \in DOMAIN list : list[j].id = id => j <= i]

C19_CacheStep ==
    /\ \A i \in DOMAIN events : MapHas(events', events[i].k)
    /\ resp'.route = "eventById" /\ resp'.status = 200 =>
          \A id \in EventIds :
             MapGet(events', id) =
                IF resp'.body.id = id THEN <<resp'.body>> ELSE MapGet(events, id)
    /\ resp'.route = "events" /\ resp'.status = 200 =>
          \A id \in EventIds :
             MapGet(events', id) =
                IF \E i \in DOMAIN resp'.body : resp'.body[i].id = id
                THEN <<C19_LastWithId(resp'.body, id)>>
                ELSE MapGet(events, id)

C19_CacheUpsert ==
    /\ [](\A i \in DOMAIN events : events[i].k = events[i].v.id)
    /\ [][C19_CacheStep]_vars

\* A list with two versions of one id was cached over an earlier record of
\* that id, beside a record of another id.
C19_OverwrittenTwice ==
    /\ resp.route = "events" /\ resp.status = 200
    /\ Len(resp.body) = 2
    /\ resp.body[1].id = resp.body[2].id
    /\ resp.body[1].data # resp.body[2].data
    /\ Len(events) = 2
    /\ events[1].k = resp.body[2].id
    /\ events[1].v = resp.body[2]

(***************************************************************************)
(* C20: getAllDistricts, and so GET /api/districts, returns every         *)
(* district record once, in non-decreasing displayOrder, whatever the     *)
(* order addDistrict inserted them in.                                     *)
(***************************************************************************)
C20_DistrictsInRankOrder ==
    LET all == getAllDistricts
        stored == MapValues(districts) IN
    /\ \A i, j \in DOMAIN all : i < j => all[i].displayOrder <= all[j].displayOrder
    /\ Len(all) = Len(stored)
    /\ {all[i] : i \in DOMAIN all} = {stored[i] : i \in DOMAIN stored}
    /\ DistrictsResponse = Answer({"getAllDistricts"}, 200, all)

\* Districts were added after the defaults, the last of them with the lowest
\* rank of all: the map's insertion order is not the rank order.
C20_InsertedOutOfOrder ==
    /\ Len(districts) = Len(districtsData) + 2
    /\ districts[Len(districts)].v.displayOrder = 0
    /\ districts[Len(districts) - 1].v.displayOrder = 9

(***************************************************************************)
(* C21: the district catalog is the eight seeded districts, with pairwise *)
(* distinct values and ranks, in every state; no request of the auth,     *)
(* districts, events or favorites routes changes it; and GET              *)
(* /api/districts always answers with the whole list.                     *)
(***************************************************************************)
C21_SeededValues ==
    <<<<"central">>, <<"shinjuku-shibuya">>, <<"ikebukuro-ueno">>, <<"south">>,
      <<"north-east">>, <<"tama-west">>, <<"tama-south">>, <<"tama-north">>>>

C21_CatalogIsTheSeed ==
    /\ Len(districts) = Len(C21_SeededValues)
    /\ \A i \in DOMAIN districts :
          /\ districts[i].k = i
          /\ districts[i].v.id = i
          /\ districts[i].v.value = C21_SeededValues[i]
    /\ \A i, j \in DOMAIN districts :
          i # j => /\ districts[i].v.value # districts[j].v.value
                   /\ districts[i].v.displayOrder # districts[j].v.displayOrder
    /\ currentDistrictId = Len(C21_SeededValues) + 1
    /\ DistrictsResponse.status = 200
    /\ Len(DistrictsResponse.body) = Len(C21_SeededValues)
    /\ \A i \in DOMAIN districts :
          \E j \in DOMAIN DistrictsResponse.body : DistrictsResponse.body[j] = districts[i].v

C21_DistrictCatalogFixed ==
    /\ []C21_CatalogIsTheSeed
    /\ [][UNCHANGED districtVars]_vars

\* A logged-in client has a favorite and a cached event, and a search that
\* looked its district up has just been answered.
C21_EveryRouteFamilyServed ==
    /\ \E s \in Sessions : sessionUser[s] # <<>>
    /\ favorites # <<>>
    /\ events # <<>>
    /\ resp.route = "events" /\ resp.status = 200
    /\ "getDistrictByValue" \in resp.calls

(***************************************************************************)
(* C22: user ids are unique and ascend in creation order, below the       *)
(* counter; each createUser stores, under the counter's value, one new    *)
(* record whose id exceeds every id given before, the id a 201 carries;   *)
(* and no stored record is ever replaced or given another id.             *)
(***************************************************************************)
C22_IdsAscend ==
    \A i \in DOMAIN users :
        /\ users[i].k = users[i].v.id
        /\ users[i].v.id < currentUserId
        /\ \A j \in DOMAIN users : i < j => users[i].v.id < users[j].v.id

C22_CreateUserStep ==
    users' # users =>
        /\ Len(users') = Len(users) + 1
        /\ SubSeq(users', 1, Len(users)) = users
        /\ users'[Len(users')].v.id = currentUserId
        /\ \A i \in DOMAIN users : users[i].v.id < users'[Len(users')].v.id
        /\ currentUserId' > currentUserId
        /\ resp'.status = 201 => resp'.body.id = users'[Len(users')].v.id

C22_UserIdsMonotonic ==
    /\ []C22_IdsAscend
    /\ [][C22_CreateUserStep]_vars

\* Two users are stored and the second registration has just been answered.
C22_SecondUserCreated ==
    /\ Len(users) = 2
    /\ resp.route = "register" /\ resp.status = 201
    /\ resp.body.id = 2

(***************************************************************************)
(* C23: of two POST /api/favorites/:eventId requests of one user for one  *)
(* event that are under way together, the one the server runs second is   *)
(* run with the first one's record stored: it is answered 400 and leaves  *)
(* the store to the record the first one wrote.  (The claim has both pass *)
(* the check and both answered 201, the later addFavorite replacing the   *)
(* earlier record.)                                                        *)
(***************************************************************************)
\* Request r was under way when a POST of its session and event was answered
\* 201 in the last step, and is answered in this step.
C23_SecondOfPair(r) ==
    /\ resp.route = "favAdd" /\ resp.status = 201
    /\ reqs[r].route = "favAdd" /\ reqs[r].pc = "sent"
    /\ reqs[r].sess = resp.sess /\ reqs[r].eventId = resp.eventId
    /\ reqs'[r].pc = "idle"

C23_RecordsOfPair(favs, userId, eventId) ==
    {i \in DOMAIN favs : favs[i].v.userId = userId /\ favs[i].v.eventId = eventId}

C23_SecondPostStep ==
    \A r \in Reqs :
       C23_SecondOfPair(r) =>
          /\ resp'.route = "favAdd" /\ resp'.user = resp.user
          /\ resp'.status = 400
          /\ "addFavorite" \notin resp'.calls
          /\ UNCHANGED <<favorites, currentFavoriteId>>
          /\ \E i \in DOMAIN favorites :
                /\ C23_RecordsOfPair(favorites', resp.user[1].id, resp.eventId) = {i}
                /\ favorites'[i].v.id = currentFavoriteId - 1

C23_BothPostStep ==
    \A r \in Reqs :
       C23_SecondOfPair(r) =>
          /\ resp'.status = 201
          /\ \E i \in DOMAIN favorites' :
                /\ C23_RecordsOfPair(favorites', resp.user[1].id, resp.eventId) = {i}
                /\ favorites'[i].v.id = currentFavoriteId

C24_RecordsOf(favs, userId) ==
    LET mine(fav) == fav.userId = userId IN SelectSeq(MapValues(favs), mine)

\* The cached events of a list of records, in its order.
C24_EventsOf(records) ==
    LET cached(fav) == MapHas(events, fav.eventId)
        kept == SelectSeq(records, cached)
    IN [i \in DOMAIN kept |-> MapGet(events, kept[i].eventId)[1]]

C24_AnswersFromOwnRecords ==
    \A s \in Sessions :
       deserializeUser(s) # <<>> =>
          LET own == C24_RecordsOf(favorites, deserializeUser(s)[1].id) IN
          /\ FavListResponse(s) = Answer({"getUserFavorites"}, 200, C24_EventsOf(own))
          /\ \A eventId \in EventIds :
                FavCheckResponse(s, eventId) =
                   Answer({"getFavorite"}, 200,
                          [isFavorite |-> \E i \in DOMAIN own : own[i].eventId = eventId])

C24_FavoritesStep ==
    resp'.route \in {"favAdd", "favRemove"} /\ resp'.user # <<>> =>
       LET userId == resp'.user[1].id
           own == C24_RecordsOf(favorites, userId) IN
       /\ \A other \in 1..(MaxUsers + 1) \ {userId} :
             C24_RecordsOf(favorites', other) = C24_RecordsOf(favorites, other)
       /\ resp'.route = "favAdd" =>
             (resp'.status = 400 <=> \E i \in DOMAIN own : own[i].eventId = resp'.eventId)
       /\ resp'.route = "favRemove" => resp'.status = 200

C24_UsersIsolated ==
    /\ []C24_AnswersFromOwnRecords
    /\ [][C24_FavoritesStep]_vars

\* A user has just added an event that another user holds as a favorite too.
C24_SameEventOfTwoUsers ==
    /\ resp.route = "favAdd" /\ resp.status = 201
    /\ \E other \in 1..MaxUsers :
          other # resp.user[1].id /\ PairStored(other, resp.eventId)
    /\ PairStored(resp.user[1].id, resp.eventId)
    /\ MapHas(events, resp.eventId)

(***************************************************************************)
(* C25: once POST /api/auth/register has answered 201 for a username and  *)
(* a password, a login with that username and password succeeds and binds *)
(* the session to the id the 201 carried: the LocalStrategy finds a user  *)
(* of that username, the password matches its hash, and its id is the     *)
(* registered one.                                                         *)
(***************************************************************************)
C25_RegisteredCanLogIn ==
    resp.route = "register" /\ resp.status = 201 =>
       LET user == getUserByUsername(resp.username[1]) IN
       /\ user # <<>>
       /\ BcryptCompare(resp.password[1], user[1].password)
       /\ user[1].id = resp.body.id

(***************************************************************************)
(* C26: a POST /api/auth/register that is answered with another status    *)
(* than 201 (400, or 500, also when the session could not be established  *)
(* after the user was created) leaves the Identity Store as it was.       *)
(***************************************************************************)
C26_RefusedRegisterStep ==
    resp'.route = "register" /\ resp'.status # 201 => UNCHANGED <<users, currentUserId>>

C26_RefusedRegisterLeavesStore == [][C26_RefusedRegisterStep]_vars

(***************************************************************************)
(* C27: POST /api/auth/logout answers 200 and leaves its session without  *)
(* a user; a session without a user is answered 401 by GET /api/auth/me   *)
(* and by the four guarded favorites routes, and gets a user again only   *)
(* in a step where a login answers 200 or a registration 201 on that      *)
(* session; and the logout step changes no user, favorite, district or    *)
(* cached event.                                                           *)
(***************************************************************************)
C27_UnboundSessionRefused ==
    /\ \A s \in Sessions :
          sessionUser[s] = <<>> =>
             /\ MeResponse(s) = Answer({}, 401, [message |-> "Not authenticated"])
             /\ FavListResponse(s).status = 401
             /\ \A eventId \in EventIds : FavCheckResponse(s, eventId).status = 401
    /\ resp.route \in {"favAdd", "favRemove"} /\ sessionUser[resp.sess] = <<>> =>
          resp.status = 401
    /\ resp.route = "logout" => resp.status = 200 /\ sessionUser[resp.sess] = <<>>

C27_LogoutStep ==
    /\ resp'.route = "logout" => UNCHANGED storeVars
    /\ \A s \in Sessions :
          sessionUser[s] = <<>> /\ sessionUser'[s] # <<>> =>
             /\ resp'.sess = s
             /\ \/ resp'.route = "login" /\ resp'.status = 200
                \/ resp'.route = "register" /\ resp'.status = 201

C27_LoggedOutUntilLogin ==
    /\ []C27_UnboundSessionRefused
    /\ [][C27_LogoutStep]_vars

\* A session that had a user, a favorite and a cached event to show was
\* logged out.
C27_BoundSessionLoggedOut ==
    /\ resp.route = "logout" /\ resp.user # <<>>
    /\ events # <<>>
    /\ PairStored(resp.user[1].id, events[1].k)
    /\ MeResponse(resp.sess).status = 401

(***************************************************************************)
(* C28: when GET /api/events/:id for identifier X is answered 200, the    *)
(* record in the body has id X and the Event Cache holds that record      *)
(* under key X, whatever the external source answered.                     *)
(***************************************************************************)
C28_AnsweredEventIsRequested ==
    resp.route = "eventById" /\ resp.status = 200 =>
       /\ resp.body.id = resp.eventId
       /\ MapGet(events, resp.eventId) = <<resp.body>>

(***************************************************************************)
(* C29: every Favorite is stored under the key `userId-eventId` of its    *)
(* own fields; two different (userId, eventId) pairs never have the same  *)
(* key; getFavorite finds a record of a pair exactly when removeFavorite  *)
(* of the pair would delete one; and an addFavorite leaves the record of  *)
(* every other pair as it was.                                             *)
(***************************************************************************)
\* User ids of one and of two digits, with the event identifiers, one of
\* which holds the separator.
C29_Pairs == ((1..(MaxUsers + 1)) \cup {12, 17}) \X EventIds

C29_KeyedByOwnPair ==
    /\ \A i \in DOMAIN favorites :
          favorites[i].k =
             Digits(favorites[i].v.userId) \o <<"-">> \o favorites[i].v.eventId
    /\ \A p, q \in C29_Pairs : p # q => FavoriteKey(p[1], p[2]) # FavoriteKey(q[1], q[2])
    /\ \A p \in C29_Pairs :
          getFavorite(p[1], p[2]) # <<>>
             <=> MapDelete(favorites, FavoriteKey(p[1], p[2])) # favorites

C29_AddFavoriteStep ==
    currentFavoriteId' # currentFavoriteId =>
       \E i \in DOMAIN favorites' :
          /\ favorites'[i].v.id = currentFavoriteId
          /\ \A p \in C29_Pairs :
                p # <<favorites'[i].v.userId, favorites'[i].v.eventId>> =>
                   C23_RecordsOfPair(favorites', p[1], p[2])
                      = C23_RecordsOfPair(favorites, p[1], p[2])
                   /\ \A j \in C23_RecordsOfPair(favorites, p[1], p[2]) :
                         favorites'[j] = favorites[j]

C29_CompositeKeys ==
    /\ []C29_KeyedByOwnPair
    /\ [][C29_AddFavoriteStep]_vars

\* Two users hold favorites and the event of one identifier holds the
\* separator: the keys 1-2-7 and 2-7 are in the store.
C29_KeysWithSeparator ==
    /\ MapHas(favorites, <<"1", "-", "2", "-", "7">>)
    /\ MapHas(favorites, <<"2", "-", "7">>)

(***************************************************************************)
(* C30: for a logged-in user, an EventCard with no toggle pending shows   *)
(* the server's state: its isFavorite is true exactly when the Favorite   *)
(* Store holds (user, event.id), on the search results and on the         *)
(* Favorites page alike.                                                   *)
(***************************************************************************)
C30_CardShowsStore ==
    card.mounted /\ ~card.isPending /\ deserializeUser("s1") # <<>> =>
       (card.isFavorite <=> PairStored(deserializeUser("s1")[1].id, card.eventId))

====
